---- MODULE Spec2Model ----
(***************************************************************************)
(* Bifurcation analysis of the Li-Rinzel astrocyte model                   *)
(* (Astrocyte-Neuron_Interactions/Astrocyte/astrocyte.py).                 *)
(*                                                                         *)
(* Biforcation(model, par_start, par_stop, par_tot, t0, t_stop, dt,        *)
(* t_relax) is modelled as a state machine: one step for the prologue      *)
(* (time grid, initial state, accumulators, parameter set), one step per   *)
(* iteration of the sweep loop, one step for the return.  Real numbers are *)
(* exact rationals <<num, den>>; the library calls (np.arange,             *)
(* np.linspace, odeint, slicing, argrelextrema) are operators that compute *)
(* what the library computes.                                              *)
(***************************************************************************)
EXTENDS Integers, Sequences, FiniteSets, TLC

VARIABLES
    args,       \* the arguments of the call of Biforcation (never assigned)
    K3,         \* module-level constant read by LiRinzel, set from the command line
    pc,         \* "call" | "loop" | "done" | "error"
    err,        \* the call that raised, when pc = "error"
    run,        \* 1 for the first call of Biforcation, 2 for the repeated call
    first,      \* what the first call returned (set when the second call starts)
    t,          \* time grid, line 129
    X0,         \* initial state, line 130
    I_list,     \* line 132
    Bif_list,   \* line 133
    pars,       \* the iterable of the for loop, line 135
    k,          \* number of loop iterations completed
    sol,        \* trajectory of the last iteration, line 136
    X,          \* analysed window of the last iteration, line 139
    max_loc,    \* line 141 (0-based indices into X)
    min_loc,    \* line 142 (0-based indices into X)
    iters,      \* trace of the loop: what each iteration was given and produced
    result,     \* the returned pair, line 153
    net         \* the Brian2 objects of the network scripts (NA_net.py,
                \* gliotrasmission_closedloop.py); unused by Biforcation

vars == <<args, K3, pc, err, run, first, t, X0, I_list, Bif_list, pars, k,
          sol, X, max_loc, min_loc, iters, result, net>>

(***************************************************************************)
(* Bounds of the model.                                                    *)
(***************************************************************************)
MaxParTot == 3
MaxTStop == 5
MaxRelax == 4
MaxLen == 7
MaxVal == 2

(***************************************************************************)
(* Exact rational arithmetic: <<n, d>> with d > 0 and gcd(n, d) = 1.       *)
(***************************************************************************)
Abs(x) == IF x < 0 THEN -x ELSE x

Min(a, b) == IF a < b THEN a ELSE b

Max(a, b) == IF a < b THEN b ELSE a

RECURSIVE GCD(_, _)
GCD(a, b) == IF b = 0 THEN a ELSE GCD(b, a % b)

Rat(n, d) ==
    LET s == IF d < 0 THEN -1 ELSE 1
        g == GCD(Abs(n), Abs(d))
    IN  <<(s * n) \div g, (s * d) \div g>>

RInt(n) == <<n, 1>>

RAdd(a, b) == Rat(a[1] * b[2] + b[1] * a[2], a[2] * b[2])

RSub(a, b) == Rat(a[1] * b[2] - b[1] * a[2], a[2] * b[2])

RMul(a, b) == Rat(a[1] * b[1], a[2] * b[2])

RDivInt(a, n) == Rat(a[1], a[2] * n)

RLess(a, b) == a[1] * b[2] < b[1] * a[2]


(***************************************************************************)
(* Library calls, computed as the library computes them.                   *)
(***************************************************************************)

\* ceil(a / b) for b # 0
CeilDiv(a, b) == IF b > 0 THEN -((-a) \div b) ELSE -(a \div (-b))

\* np.arange(start, stop, step), step # 0: max(0, ceil((stop - start) / step))
\* samples start + j * step; stop itself is excluded.
Arange(start, stop, step) ==
    LET n == Max(0, CeilDiv(stop - start, step))
    IN  [j \in 1..n |-> start + (j - 1) * step]

\* np.linspace(start, stop, num, endpoint=False): div = num, last sample kept
LinspaceNoEndpoint(start, stop, num) ==
    LET step == IF num > 0 THEN Rat(stop - start, num) ELSE RInt(stop - start)
    IN  [j \in 1..num |-> RAdd(RMul(RInt(j - 1), step), RInt(start))]

\* np.linspace(start, stop, num), num >= 0, endpoint = True:
\*   div = num - 1; y = arange(num); step = delta / div; y = y * step + start
\*   (y = y * delta + start when div = 0); y[-1] = stop when num > 1.
Linspace(start, stop, num) ==
    LET div   == num - 1
        delta == stop - start
        step  == IF div > 0 THEN Rat(delta, div) ELSE RInt(delta)
        y     == [j \in 1..num |-> RAdd(RMul(RInt(j - 1), step), RInt(start))]
    IN  IF num > 1 THEN [y EXCEPT ![num] = RInt(stop)] ELSE y

\* Python's s[:start] in place of s[start:]
PySliceTo(s, start) ==
    LET n  == Len(s)
        hi == IF start < 0 THEN Max(n + start, 0) ELSE Min(start, n)
    IN  SubSeq(s, 1, hi)

\* Python's s[start:] on a sequence of length n: a negative start counts from
\* the end, and the result is clamped to the sequence.
PySliceFrom(s, start) ==
    LET n  == Len(s)
        lo == IF start < 0 THEN Max(n + start, 0) ELSE Min(start, n)
    IN  SubSeq(s, lo + 1, n)

\* ndarray.take(idx, mode='wrap'): idx is taken modulo n
TakeWrap(data, idx) == data[(idx % Len(data)) + 1]

\* ndarray.take(idx, mode='clip') on a 1-D array: idx is clipped to 0..n-1.
TakeClip(data, idx) == data[Min(Max(idx, 0), Len(data) - 1) + 1]

\* np.greater_equal / np.less_equal in place of np.greater / np.less
CompareNonStrict(comparator, a, b) ==
    IF comparator = "greater" THEN ~RLess(a, b) ELSE ~RLess(b, a)

\* np.greater / np.less on two samples
Compare(comparator, a, b) ==
    IF comparator = "greater" THEN RLess(b, a) ELSE RLess(a, b)

\* _boolrelextrema with | in place of & between the two comparisons
BoolRelExtremaAny(data, comparator) ==
    [i \in 1..Len(data) |->
        \/ Compare(comparator, data[i], TakeClip(data, (i - 1) + 1))
        \/ Compare(comparator, data[i], TakeClip(data, (i - 1) - 1))]

\* scipy.signal._boolrelextrema(data, comparator, order=1, mode='clip'):
\* results[loc] = comparator(main, plus) & comparator(main, minus), where
\* plus = data.take(locs + 1), minus = data.take(locs - 1).
BoolRelExtrema(data, comparator) ==
    [i \in 1..Len(data) |->
        /\ Compare(comparator, data[i], TakeClip(data, (i - 1) + 1))
        /\ Compare(comparator, data[i], TakeClip(data, (i - 1) - 1))]

\* np.nonzero reporting 1-based positions
RECURSIVE NonzeroOneBased(_, _)
NonzeroOneBased(b, n) ==
    IF n = 0 THEN <<>>
    ELSE IF b[n] THEN Append(NonzeroOneBased(b, n - 1), n)
         ELSE NonzeroOneBased(b, n - 1)

\* np.nonzero on a 1-D boolean array: the 0-based indices of its True
\* entries, ascending.
RECURSIVE NonzeroUpTo(_, _)
NonzeroUpTo(b, n) ==
    IF n = 0 THEN <<>>
    ELSE IF b[n] THEN Append(NonzeroUpTo(b, n - 1), n - 1)
         ELSE NonzeroUpTo(b, n - 1)

\* scipy.signal.argrelextrema(data, comparator)
ArgRelExtrema(data, comparator) ==
    LET b == BoolRelExtrema(data, comparator)
    IN  NonzeroUpTo(b, Len(b))

\* X[loc].tolist(): the samples at the 0-based indices loc
Index(data, loc) == [j \in 1..Len(loc) |-> data[loc[j] + 1]]

(***************************************************************************)
(* Vector fields.  LiRinzel is the model of the repository: a              *)
(* floating-point rational function of (C, h, I) and of module-level       *)
(* constants.  The model keeps its signature, what it reads (X, I, the     *)
(* module constant K3; t is ignored) and its shape                         *)
(*   dC/dt = influx(I, h) - pump(K3, C),   dh/dt = h_inf(I, C) - h,        *)
(* with each flux in affine form over exact rationals.  LinearDecay is a   *)
(* caller-supplied model with a globally stable fixed point.               *)
(***************************************************************************)
LiRinzel(Xv, tt, I) ==
    LET C == Xv[1]
        h == Xv[2]
    IN  <<RSub(RAdd(I, h), RMul(RInt(K3), C)),
          RSub(RSub(I, C), h)>>

LinearDecay(Xv, tt, I) ==
    <<RSub(RInt(0), RDivInt(Xv[1], 2)), RSub(RInt(0), RDivInt(Xv[2], 2))>>

Models == {"LiRinzel", "LinearDecay"}

Field(model, Xv, tt, I) ==
    IF model = "LiRinzel" THEN LiRinzel(Xv, tt, I) ELSE LinearDecay(Xv, tt, I)

\* integrate.odeint(model, y0, t, args=(I,)) for a non-empty grid: one row
\* per grid point, row 0 = y0; the solver is deterministic and is modelled
\* as a fixed-step explicit scheme over the grid.
Odeint(model, y0, grid, I) ==
    LET rows[j \in 1..Len(grid)] ==
            IF j = 1 THEN y0
            ELSE LET p  == rows[j - 1]
                     hh == RInt(grid[j] - grid[j - 1])
                     f  == Field(model, p, grid[j - 1], I)
                 IN  <<RAdd(p[1], RMul(hh, f[1])), RAdd(p[2], RMul(hh, f[2]))>>
    IN  [j \in 1..Len(grid) |-> rows[j]]

\* sol[:, c] (c is 0-based)
Column(s, c) == [j \in 1..Len(s) |-> s[j][c + 1]]

(***************************************************************************)
(* Biforcation, astrocyte.py lines 87-153.                                 *)
(***************************************************************************)

\* The values the arguments are drawn from.  dt = 0, dt < 0, t_stop <= t0,
\* par_tot <= 0, par_stop < par_start and t_relax >= 0 are all accepted by
\* the signature.  K3 is args.K3 of the script.
ParStarts == {0, 1}

ParStops == {0, 2}

T0s == {0}

Dts == {-1, 0, 1, 2}

K3s == {1, 2}

Args ==
    [model: Models, par_start: ParStarts, par_stop: ParStops,
     par_tot: (-1)..MaxParTot, t0: T0s, t_stop: 0..MaxTStop, dt: Dts,
     t_relax: (-MaxRelax)..1]

\* a local that has not been assigned yet
Unset == <<>>

\* X0 = np.array([0.2, 0.2])
InitialState == <<Rat(1, 5), Rat(1, 5)>>

\* accumulators that outlive the call (a module-level or default-argument list)
SharedList(previous) == previous

\* I_list = list(); Bif_list = list(): fresh on every call, whatever an
\* earlier call left behind.
NewList(previous) == <<>>

\* continuation: the next iteration starts from the last row of this one
ContinueX0(y0, s) == IF Len(s) = 0 THEN y0 ELSE s[Len(s)]

\* The loop body never assigns X0, and odeint works on a copy of y0: the
\* next iteration starts from the X0 the prologue built.
KeepX0(y0, s) == y0

\* X = sol[:,1]: the window of the second state component
WindowOfY(s, t_relax) == PySliceFrom(Column(s, 1), t_relax)

\* X = sol[:,0]; X = X[t_relax:]
Window(s, t_relax) == PySliceFrom(Column(s, 0), t_relax)

\* Bif_val = X_min + X_max
BifValMinFirst(X_max, X_min) == X_min \o X_max

\* Bif_val = X_max
BifValMaxOnly(X_max, X_min) == X_max

\* Bif_val = X_max + X_min
BifVal(X_max, X_min) == X_max \o X_min

\* I_x = [item for item in range(len(Bif_val))]
IxItem(i, Bif_val) == [j \in 1..Len(Bif_val) |-> RInt(j - 1)]

\* I_x = [i for item in range(len(Bif_val))]
Ix(i, Bif_val) == [j \in 1..Len(Bif_val) |-> i]

Init ==
    /\ args \in Args
    /\ K3 \in K3s
    /\ pc = "call"
    /\ err = "none"
    /\ run = 1
    /\ first = Unset
    /\ t = Unset
    /\ X0 = Unset
    /\ I_list = Unset
    /\ Bif_list = Unset
    /\ pars = Unset
    /\ k = 0
    /\ sol = Unset
    /\ X = Unset
    /\ max_loc = Unset
    /\ min_loc = Unset
    /\ iters = <<>>
    /\ result = Unset
    /\ net = Unset

\* Lines 125-135: the prologue up to the evaluation of the loop's iterable.
\* np.arange raises on a zero step (line 129); np.linspace raises on a
\* negative number of samples (line 135).
Enter ==
    /\ pc = "call"
    /\ k' = 0
    /\ iters' = <<>>
    /\ UNCHANGED <<net, args, K3, run, first, sol, X, max_loc, min_loc, result>>
    /\ IF args.dt = 0
       THEN /\ pc' = "error"
            /\ err' = "arange"
            /\ UNCHANGED <<t, X0, I_list, Bif_list, pars>>
       ELSE /\ t' = Arange(args.t0, args.t_stop, args.dt)
            /\ X0' = InitialState
            /\ I_list' = NewList(I_list)
            /\ Bif_list' = NewList(Bif_list)
            /\ IF args.par_tot < 0
               THEN /\ pc' = "error"
                    /\ err' = "linspace"
                    /\ pars' = pars
               ELSE /\ pc' = "loop"
                    /\ err' = err
                    /\ pars' = Linspace(args.par_start, args.par_stop, args.par_tot)

\* Lines 136-150: one iteration of the loop, for the parameter value i.
\* On an empty time grid odeint reads t[0] and writes row 0 of a result
\* without rows: the call either returns that empty result (this action) or
\* fails (IterateFault).
Iterate ==
    /\ pc = "loop"
    /\ k < Len(pars)
    /\ LET i       == pars[k + 1]
           sol_    == IF Len(t) = 0 THEN <<>> ELSE Odeint(args.model, X0, t, i)
           X_      == Window(sol_, args.t_relax)
           maxl    == ArgRelExtrema(X_, "greater")
           minl    == ArgRelExtrema(X_, "less")
           X_max   == Index(X_, maxl)
           X_min   == Index(X_, minl)
           Bif_val == BifVal(X_max, X_min)
           I_x     == Ix(i, Bif_val)
       IN  /\ sol' = sol_
           /\ X' = X_
           /\ max_loc' = maxl
           /\ min_loc' = minl
           /\ I_list' = Append(I_list, I_x)
           /\ Bif_list' = Append(Bif_list, Bif_val)
           /\ iters' = Append(iters, [i |-> i, X0 |-> X0, t |-> t,
                                      sol |-> sol_, X |-> X_])
           /\ X0' = KeepX0(X0, sol_)
    /\ k' = k + 1
    /\ UNCHANGED <<net, args, K3, pc, err, run, first, t, pars, result>>

IterateFault ==
    /\ pc = "loop"
    /\ k < Len(pars)
    /\ Len(t) = 0
    /\ pc' = "error"
    /\ err' = "odeint"
    /\ UNCHANGED <<net, args, K3, run, first, t, X0, I_list, Bif_list, pars, k,
                   sol, X, max_loc, min_loc, iters, result>>

\* Line 136 when the integration fails with an exception (raised by the
\* model callable or by the solver): the loop has no handler, so the
\* exception leaves Biforcation and the lists built so far are lost with the
\* frame.
IntegrationFailure ==
    /\ pc = "loop"
    /\ k < Len(pars)
    /\ Len(t) >= 1
    /\ pc' = "error"
    /\ err' = "IntegrationFailure"
    /\ UNCHANGED <<net, args, K3, run, first, t, X0, I_list, Bif_list, pars, k,
                   sol, X, max_loc, min_loc, iters, result>>

\* Line 153: return I_list, Bif_list
Return ==
    /\ pc = "loop"
    /\ k = Len(pars)
    /\ result' = <<I_list, Bif_list>>
    /\ pc' = "done"
    /\ UNCHANGED <<net, args, K3, err, run, first, t, X0, I_list, Bif_list, pars,
                   k, sol, X, max_loc, min_loc, iters>>

\* The caller calls Biforcation once more with the same arguments, in the
\* same process (same module constants).
CallAgain ==
    /\ pc = "done"
    /\ run = 1
    /\ run' = 2
    /\ first' = result
    /\ pc' = "call"
    /\ UNCHANGED <<net, args, K3, err, t, X0, I_list, Bif_list, pars, k, sol, X,
                   max_loc, min_loc, iters, result>>

Next ==
    Enter \/ Iterate \/ IterateFault \/ IntegrationFailure \/ Return \/ CallAgain

Spec == Init /\ [][Next]_vars

(***************************************************************************)
(* The extremum detector alone, on every sequence of at most MaxLen        *)
(* samples with values in 0..MaxVal.                                       *)
(***************************************************************************)
RECURSIVE SeqsUpTo(_, _)
SeqsUpTo(S, n) ==
    IF n = 0 THEN {<<>>}
    ELSE LET shorter == SeqsUpTo(S, n - 1)
         IN  shorter \cup {Append(q, v) : q \in {r \in shorter : Len(r) = n - 1}, v \in S}

DetectorInit ==
    /\ X \in SeqsUpTo({RInt(v) : v \in 0..MaxVal}, MaxLen)
    /\ pc = "detect"
    /\ args = Unset /\ K3 = 1 /\ err = "none" /\ run = 1 /\ first = Unset
    /\ t = Unset /\ X0 = Unset /\ I_list = Unset /\ Bif_list = Unset
    /\ pars = Unset /\ k = 0 /\ sol = Unset /\ iters = <<>> /\ result = Unset
    /\ max_loc = Unset
    /\ min_loc = Unset
    /\ net = Unset

\* Lines 141-142 on the window X
Detect ==
    /\ pc = "detect"
    /\ max_loc' = ArgRelExtrema(X, "greater")
    /\ min_loc' = ArgRelExtrema(X, "less")
    /\ pc' = "detected"
    /\ UNCHANGED <<net, args, K3, err, run, first, t, X0, I_list, Bif_list, pars,
                   k, sol, X, iters, result>>

SpecDetector == DetectorInit /\ [][Detect]_vars

(***************************************************************************)
(* Properties.  A sample of a window S is addressed by its 0-based index i *)
(* as S[i + 1].                                                            *)
(***************************************************************************)
At(S, i) == S[i + 1]

Range(q) == {q[j] : j \in 1..Len(q)}

\* the interior indices of S that are strict local maxima / minima
StrictMaxima(S) ==
    {i \in 1..(Len(S) - 2) : RLess(At(S, i - 1), At(S, i)) /\ RLess(At(S, i + 1), At(S, i))}

StrictMinima(S) ==
    {i \in 1..(Len(S) - 2) : RLess(At(S, i), At(S, i - 1)) /\ RLess(At(S, i), At(S, i + 1))}

\* the samples of S at the indices of the set P, in increasing index order
RECURSIVE ValuesInOrder(_, _, _)
ValuesInOrder(S, P, n) ==
    IF n = 0 THEN <<>>
    ELSE IF (n - 1) \in P THEN Append(ValuesInOrder(S, P, n - 1), At(S, n - 1))
         ELSE ValuesInOrder(S, P, n - 1)

RECURSIVE SumLen(_)
SumLen(q) == IF q = <<>> THEN 0 ELSE Len(Head(q)) + SumLen(Tail(q))

Running == pc \in {"loop", "done"}

\* C1: for every sequence handed to the extremum detector, the reported
\* maxima are exactly the interior indices strictly greater than both
\* neighbours, the reported minima exactly the interior indices strictly less
\* than both neighbours; the indices 0 and n-1 are never reported, and no
\* reported sample equals one of its neighbours.
C1_DetectorExact ==
    pc = "detected" =>
        LET n == Len(X)
            reported == Range(max_loc) \cup Range(min_loc)
        IN  /\ Range(max_loc) = StrictMaxima(X)
            /\ Range(min_loc) = StrictMinima(X)
            /\ Len(max_loc) = Cardinality(Range(max_loc))
            /\ Len(min_loc) = Cardinality(Range(min_loc))
            /\ 0 \notin reported
            /\ (n - 1) \notin reported
            /\ \A i \in reported :
                  /\ At(X, i) # At(X, i - 1)
                  /\ At(X, i) # At(X, i + 1)

\* C1 witness: a window with a maximum, a minimum and a flat plateau has
\* been analysed.
C1_Witness ==
    /\ pc = "detected"
    /\ max_loc # <<>>
    /\ min_loc # <<>>
    /\ \E i \in 0..(Len(X) - 2) : At(X, i) = At(X, i + 1)

\* C2: the two returned sequences have equal length; at every position the
\* parameter-side entry and the extremum-side entry have equal length, every
\* parameter entry is the parameter value of the iteration at that position,
\* and every extremum entry is a strict local extremum of that iteration's
\* window.
C2_Pairing ==
    pc = "done" =>
        LET I == result[1]
            B == result[2]
        IN  /\ Len(I) = Len(B)
            /\ Len(I) = Len(iters)
            /\ \A j \in 1..Len(I) :
                  /\ Len(I[j]) = Len(B[j])
                  /\ \A m \in 1..Len(B[j]) :
                        /\ I[j][m] = iters[j].i
                        /\ \E x \in StrictMaxima(iters[j].X) \cup StrictMinima(iters[j].X) :
                              B[j][m] = At(iters[j].X, x)

\* C2 witness: a returned dataset with two parameter values, one of them
\* with at least two extrema.
C2_Witness ==
    /\ pc = "done"
    /\ Len(result[1]) >= 2
    /\ \E j \in 1..Len(result[2]) : Len(result[2][j]) >= 2
    /\ result[1][1] # result[1][2]

\* C3 (as stated): for every t_relax with abs(t_relax) <= number of grid
\* samples, the analysed window is exactly the last abs(t_relax) samples of
\* the first state component, in time order.
C3_WindowAnyRelax ==
    (Running /\ k >= 1 /\ Abs(args.t_relax) <= Len(t)) =>
        LET w == Abs(args.t_relax)
        IN  /\ Len(X) = w
            /\ \A j \in 1..w : X[j] = sol[Len(sol) - w + j][1]

\* C3 (amended): for every negative t_relax with abs(t_relax) <= number of
\* grid samples, the analysed window is exactly the last abs(t_relax)
\* samples of the first state component, in time order.
C3_WindowNegativeRelax ==
    (Running /\ k >= 1 /\ args.t_relax < 0 /\ Abs(args.t_relax) <= Len(t)) =>
        LET w == Abs(args.t_relax)
        IN  /\ Len(sol) = Len(t)
            /\ Len(X) = w
            /\ \A j \in 1..w : X[j] = sol[Len(sol) - w + j][1]

\* C3 witness: an iteration has kept a proper tail of at least two samples
\* of a trajectory whose two components differ.
C3_Witness ==
    /\ Running
    /\ k >= 1
    /\ args.t_relax < -1
    /\ Abs(args.t_relax) < Len(t)
    /\ \E j \in 1..Len(sol) : sol[j][1] # sol[j][2]

\* C4: a returned call has integrated exactly par_tot parameter values; for
\* par_tot >= 2 the k-th (k = 0..par_tot-1) is
\* par_start + k*(par_stop - par_start)/(par_tot - 1); for par_tot = 1 it is
\* par_start.
C4_SweepValues ==
    pc = "done" =>
        /\ Len(iters) = args.par_tot
        /\ \A j \in 1..Len(iters) :
              LET v == iters[j].i
                  d == args.par_tot - 1
              IN  IF args.par_tot >= 2
                  THEN v[1] * d = v[2] * (args.par_start * d + (j - 1) * (args.par_stop - args.par_start))
                  ELSE v = <<args.par_start, 1>>

\* C4 witness: a returned sweep of three values from 1 to 2, the middle one
\* being 3/2.
C4_Witness ==
    /\ pc = "done"
    /\ args.par_tot = 3
    /\ args.par_start = 1
    /\ args.par_stop = 2
    /\ iters[2].i = <<3, 2>>
    /\ iters[3].i = <<2, 1>>

C6_ColdStart ==
    \A j \in 1..Len(iters) :
        /\ iters[j].X0 = iters[1].X0
        /\ iters[j].t = iters[1].t
        /\ iters[j].X0 = InitialState
        /\ iters[j].sol =
              IF Len(iters[1].t) = 0 THEN <<>>
              ELSE Odeint(args.model, InitialState, iters[1].t, iters[j].i)

\* C6 witness: a second iteration has run on a grid of at least three
\* samples and its trajectory ends elsewhere than the initial state.
C6_Witness ==
    /\ Len(iters) >= 2
    /\ Len(t) >= 3
    /\ iters[1].sol[Len(t)] # InitialState
    /\ iters[1].sol # iters[2].sol

RECURSIVE ExtremaUpTo(_)
ExtremaUpTo(n) ==
    IF n = 0 THEN 0
    ELSE ExtremaUpTo(n - 1)
         + Cardinality(StrictMaxima(iters[n].X))
         + Cardinality(StrictMinima(iters[n].X))

\* C8 (as stated): the length of each of the two returned sequences equals
\* the sum over the swept parameter values of the number of extrema detected
\* for that value.  (Stated for calls with a non-empty time grid.)
C8_LengthIsExtremaCount ==
    (pc = "done" /\ Len(t) >= 1) =>
        /\ Len(result[1]) = ExtremaUpTo(Len(iters))
        /\ Len(result[2]) = ExtremaUpTo(Len(iters))

\* C8 (amended): each of the two returned sequences holds one list per swept
\* parameter value (empty for a value with no extremum), and the lengths of
\* those lists add up to the sum over the swept parameter values of the
\* number of extrema detected for that value.
C8_EntriesAreExtremaCount ==
    pc = "done" =>
        /\ Len(result[1]) = Len(iters)
        /\ Len(result[2]) = Len(iters)
        /\ SumLen(result[1]) = ExtremaUpTo(Len(iters))
        /\ SumLen(result[2]) = ExtremaUpTo(Len(iters))
        /\ \A j \in 1..Len(iters) :
              Len(result[2][j]) = Cardinality(StrictMaxima(iters[j].X))
                                  + Cardinality(StrictMinima(iters[j].X))

\* C8 witness: a returned dataset in which one parameter value has a window
\* of at least 3 samples without extremum and another has an extremum.
C8_Witness ==
    /\ pc = "done"
    /\ \E j \in 1..Len(iters) : result[2][j] = <<>> /\ Len(iters[j].X) >= 3
    /\ \E j \in 1..Len(iters) : result[2][j] # <<>>

\* C9: an iteration whose window has fewer than 3 samples contributes an
\* empty extremum list and an empty parameter list and raises nothing: the
\* loop is left where the next parameter value (or the return) comes next.
C9_ShortWindow ==
    [][(pc = "loop" /\ k' = k + 1 /\ Len(X') < 3) =>
          /\ pc' = "loop"
          /\ err' = "none"
          /\ Len(Bif_list') = k'
          /\ Bif_list'[k'] = <<>>
          /\ I_list'[k'] = <<>>
          /\ SubSeq(Bif_list', 1, k) = Bif_list]_vars

\* C9 witness: an iteration has analysed a window of two different samples
\* and a further parameter value is left to sweep.
C9_Witness ==
    /\ pc = "loop"
    /\ k >= 1
    /\ k < Len(pars)
    /\ Len(X) = 2
    /\ X[1] # X[2]

\* the sweep specifications the error taxonomy rejects
InvalidSweep ==
    \/ args.par_tot < 1
    \/ (args.par_stop < args.par_start /\ args.par_tot > 1)
    \/ args.dt <= 0
    \/ args.t_stop <= args.t0

\* C10: on an invalid sweep specification the call raises before any
\* integration: it makes no call of the integrator and does not return.
\* (Stated for the states past the prologue; the time grid is required to
\* be non-empty once the loop is entered, so that what odeint does on an
\* empty grid plays no part.)
C10_FailFast ==
    (InvalidSweep /\ (Running => Len(t) >= 1)) =>
        /\ iters = <<>>
        /\ pc # "done"
        /\ err # "odeint"

\* C11 (as stated): when abs(t_relax) exceeds the number of time-grid
\* samples, the call raises RelaxationWindowOverflow instead of analysing a
\* window: no trajectory is integrated and handed to the extremum detector.
\* (Stated for a non-empty time grid.)
C11_OverflowRaises ==
    (Len(t) >= 1 /\ Abs(args.t_relax) > Len(t)) => iters = <<>>

\* C12 (as stated): a failure of the integration for one swept parameter
\* value does not abort the sweep: the loop is left where the next parameter
\* value (or the return) comes next.
C12_SkipAndContinue ==
    err = "IntegrationFailure" => pc \in {"loop", "done"}

Alternating == [j \in 1..7 |-> RInt((j - 1) % 2)]

\* C14 (as stated): for [0,1,0,1,0,1,0] the detector reports the maxima
\* 1, 3, 5 and no minimum.
C14_NoMinima ==
    (pc = "detected" /\ X = Alternating) =>
        /\ max_loc = <<1, 3, 5>>
        /\ min_loc = <<>>

\* C14 (amended): for [0,1,0,1,0,1,0] the detector reports the maxima at
\* exactly the indices 1, 3, 5 and the minima at exactly the indices 2, 4.
C14_MaximaAndMinima ==
    (pc = "detected" /\ X = Alternating) =>
        /\ max_loc = <<1, 3, 5>>
        /\ min_loc = <<2, 4>>

\* C14 witness: the detector has analysed [0,1,0,1,0,1,0].
C14_Witness ==
    /\ pc = "detected"
    /\ X = Alternating
    /\ Len(max_loc) + Len(min_loc) = 5

\* C15 (as stated): whatever the time grid, the number of extrema reported
\* for a parameter value is at most w - 2 with w = abs(t_relax) (and none
\* when w < 2), and no index is both a maximum and a minimum.
C15_BoundAnyRelax ==
    Running =>
        /\ \A j \in 1..Len(Bif_list) :
              Len(Bif_list[j]) <= Max(Abs(args.t_relax) - 2, 0)
        /\ k >= 1 => Range(max_loc) \cap Range(min_loc) = {}

\* C15 (amended): for a negative t_relax, whatever the time grid, the number
\* of extrema reported for a parameter value is at most w - 2 with
\* w = abs(t_relax) (and none when w < 2); for every t_relax no index is both
\* a maximum and a minimum.
C15_BoundNegativeRelax ==
    Running =>
        /\ args.t_relax < 0 =>
              \A j \in 1..Len(Bif_list) :
                  Len(Bif_list[j]) <= Max(Abs(args.t_relax) - 2, 0)
        /\ k >= 1 => Range(max_loc) \cap Range(min_loc) = {}

\* C15 witness: with a negative t_relax and a trajectory longer than the
\* window, a parameter value has reached the bound w - 2 >= 1.
C15_Witness ==
    /\ Running
    /\ args.t_relax < 0
    /\ \E j \in 1..Len(iters) :
          /\ Len(iters[j].sol) > Abs(args.t_relax)
          /\ Len(Bif_list[j]) = Abs(args.t_relax) - 2
          /\ Len(Bif_list[j]) >= 1

(***************************************************************************)
(* NA_net.py: the wiring of the excitatory synapses to the astrocytes.    *)
(* Lengths are in units of `size`; Brian2 numbers neurons, synapses and   *)
(* astrocytes from 0.                                                      *)
(***************************************************************************)
N_e == 20

N_i == 5

N_a == 20

\* the most synapses exc_syn.connect(True, p=0.05) is let to create
MaxSyn == 2

\* the variables of Biforcation, which the network scripts leave alone
biforcation == <<args, K3, err, run, first, t, X0, I_list, Bif_list, pars, k,
                 sol, X, max_loc, min_loc, iters, result>>

NoBiforcation ==
    /\ args = Unset /\ K3 = 1 /\ err = "none" /\ run = 1 /\ first = Unset
    /\ t = Unset /\ X0 = Unset /\ I_list = Unset /\ Bif_list = Unset
    /\ pars = Unset /\ k = 0 /\ sol = Unset /\ iters = <<>> /\ result = Unset
    /\ X = Unset /\ max_loc = Unset /\ min_loc = Unset

RDiv(a, b) == Rat(a[1] * b[2], a[2] * b[1])

\* int(x) of a real x: truncation towards zero
PyInt(a) == IF a[1] >= 0 THEN a[1] \div a[2] ELSE -((-a[1]) \div a[2])

\* int(sqrt(n))
ISqrt(n) == CHOOSE r \in 0..n : r * r <= n /\ (r + 1) * (r + 1) > n

N_rows_exc == ISqrt(N_e)

\* N_e/N_rows_exc is Python's true division
N_cols_exc == Rat(N_e, N_rows_exc)

\* grid_dist of line 123, the spacing of the neuron grid
grid_dist_exc == RDiv(RInt(1), N_cols_exc)

\* XX.flatten() and YY.flatten() of XX, YY = np.meshgrid(x, y) with
\* x = np.arange(N_rows_exc), y = np.arange(N_cols_exc): the arrays have one
\* row per element of y, and flatten() reads them row by row.
MeshX(n) ==
    LET x == Arange(0, N_rows_exc, 1)
    IN  x[(n % Len(x)) + 1]

MeshY(n) ==
    LET x == Arange(0, N_rows_exc, 1)
        y == Arange(0, CeilDiv(N_cols_exc[1], N_cols_exc[2]), 1)
    IN  y[(n \div Len(x)) + 1]

\* neurons.x and neurons.y: set for the N_e excitatory neurons, left at
\* their initial 0 for the inhibitory ones
NeuronX(n) == IF n < N_e THEN RMul(RInt(MeshX(n)), grid_dist_exc) ELSE RInt(0)

NeuronY(n) == IF n < N_e THEN RMul(RInt(MeshY(n)), grid_dist_exc) ELSE RInt(0)

N_rows_astro == ISqrt(N_a)

N_cols_astro == Rat(N_e, N_rows_astro)

\* grid_dist of line 178, the one the index expression reads
grid_dist == RDiv(RInt(1), N_cols_astro)

\* int(x_post/grid_dist) + N_cols_astro*int(y_post/grid_dist), stored in an
\* integer variable
AstrocyteIndex(post) ==
    PyInt(RAdd(RInt(PyInt(RDiv(NeuronX(post), grid_dist))),
               RMul(N_cols_astro, RInt(PyInt(RDiv(NeuronY(post), grid_dist))))))

\* the pre-synaptic neurons the synapses are drawn from
PreNeurons == {0, N_e - 1}

\* <<i, j>> before <<i2, j2>> in the order in which connect creates synapses
CreatedBefore(a, b) == a[1] < b[1] \/ (a[1] = b[1] /\ a[2] < b[2])

\* what exc_syn.connect(True, p=0.05) can create: any choice of pairs
\* (pre-synaptic excitatory neuron, post-synaptic neuron), in creation order
SynapseLists ==
    {q \in SeqsUpTo(PreNeurons \X (0..(N_e + N_i - 1)), MaxSyn) :
        \A m \in 1..(Len(q) - 1) : CreatedBefore(q[m], q[m + 1])}

NetInit ==
    /\ pc = "exc_syn.connect"
    /\ net = [syn |-> <<>>, astrocyte_index |-> <<>>,
              ecs_astro_to_syn |-> {}, ecs_syn_to_astro |-> {}]
    /\ NoBiforcation

\* Line 168: exc_syn.connect(True, p=0.05)
ExcSynConnect ==
    /\ pc = "exc_syn.connect"
    /\ \E q \in SynapseLists : net' = [net EXCEPT !.syn = q]
    /\ pc' = "astrocyte_index"
    /\ UNCHANGED biforcation

\* Lines 179-180: exc_syn.astrocyte_index = '...'
SetAstrocyteIndex ==
    /\ pc = "astrocyte_index"
    /\ net' = [net EXCEPT !.astrocyte_index =
                  [s \in 1..Len(net.syn) |-> AstrocyteIndex(net.syn[s][2])]]
    /\ pc' = "ecs_astro_to_syn"
    /\ UNCHANGED biforcation

\* Lines 259-260: ecs_astro_to_syn.connect('i == astrocyte_index_post'),
\* i over the N_a astrocytes, the post-synaptic object over the synapses
EcsAstroToSynConnect ==
    /\ pc = "ecs_astro_to_syn"
    /\ net' = [net EXCEPT !.ecs_astro_to_syn =
                  {<<i, j>> \in (0..(N_a - 1)) \X (0..(Len(net.syn) - 1)) :
                      i = net.astrocyte_index[j + 1]}]
    /\ pc' = "ecs_syn_to_astro"
    /\ UNCHANGED biforcation

\* Lines 263-264: ecs_syn_to_astro.connect('astrocyte_index_pre == j'),
\* the pre-synaptic object over the synapses, j over the N_a astrocytes
EcsSynToAstroConnect ==
    /\ pc = "ecs_syn_to_astro"
    /\ net' = [net EXCEPT !.ecs_syn_to_astro =
                  {<<i, j>> \in (0..(Len(net.syn) - 1)) \X (0..(N_a - 1)) :
                      net.astrocyte_index[i + 1] = j}]
    /\ pc' = "built"
    /\ UNCHANGED biforcation

NetNext ==
    ExcSynConnect \/ SetAstrocyteIndex \/ EcsAstroToSynConnect \/ EcsSynToAstroConnect

SpecNet == NetInit /\ [][NetNext]_vars

\* C16 (as stated): once the network is built, every excitatory synapse,
\* whatever its post-synaptic neuron, has an astrocyte_index in 0..N_a-1, an
\* astrocyte drives it exactly when it drives that astrocyte, and exactly
\* one astrocyte does.
C16_OneAstrocytePerSynapse ==
    pc = "built" =>
        \A s \in 0..(Len(net.syn) - 1) :
            /\ net.astrocyte_index[s + 1] \in 0..(N_a - 1)
            /\ \A a \in 0..(N_a - 1) :
                  <<a, s>> \in net.ecs_astro_to_syn <=> <<s, a>> \in net.ecs_syn_to_astro
            /\ Cardinality({a \in 0..(N_a - 1) : <<a, s>> \in net.ecs_astro_to_syn}) = 1

(***************************************************************************)
(* gliotrasmission_closedloop.py: the closed loop between the synapses    *)
(* and the astrocytes.  The wiring is built in full.  The run is followed *)
(* on the synapses of one pre-synaptic neuron and on the astrocytes wired *)
(* to them (and the astrocyte of the neuron's own index), with every      *)
(* concentration and fraction abstracted to its sign: "zero" or "pos".    *)
(***************************************************************************)
N_syn == 500

\* N_a of gliotrasmission_closedloop.py (N_a above is the one of NA_net.py)
N_a_closedloop == 1

\* NeuronGroup(N_a*N_syn, ...): the number of astrocytes
N_astrocyte == N_a_closedloop * N_syn

\* the pre-synaptic neurons whose synapses are followed through the run
FollowedNeurons == {0, N_syn \div 2, N_syn - 1}

\* connect(j='i') from N_source sources: one synapse per source i, to the
\* target i, in the order of creation
ConnectOneToOne(N_source) == [m \in 1..N_source |-> <<m - 1, m - 1>>]

\* connect('j % limit == i') in place of connect(j='i if i<limit')
ConnectModulo(N_source, N_target, limit) ==
    {<<j % limit, j>> : j \in {x \in 0..(N_target - 1) : x % limit < N_source}}

\* connect(j='i if i<limit') from N_source sources to N_target targets: for
\* every source index i that passes the condition, the pair <<i, i>>
ConnectIfBelow(N_source, N_target, limit) ==
    {<<i, i>> : i \in {x \in 0..(N_source - 1) : x < limit /\ x < N_target}}

\* a (summed) variable at a target: the sum over the sources wired to it
Summed(wired, source, var) ==
    IF \E w \in wired : w \in DOMAIN source /\ source[w][var] = "pos"
    THEN "pos" ELSE "zero"

\* a positive quantity after one step of exponential decay: positive, or 0
\* when it underflows
Decay(v, underflow) == IF v = "pos" /\ ~underflow THEN "pos" ELSE "zero"

\* U_0 = (1 - Gamma_S) * U_0__star + alpha * Gamma_S with alpha = 0
U_0(Gamma_S) == IF Gamma_S = "zero" THEN "U_0__star" ELSE "modulated"

GlioInit ==
    /\ pc = "synapses.connect"
    /\ net = [synapses |-> <<>>, ecs_syn_to_astro |-> {}, ecs_astro_to_syn |-> {},
              syn |-> <<>>, astro |-> <<>>]
    /\ NoBiforcation

\* Line 100: synapses.connect(j='i')
SynapsesConnect ==
    /\ pc = "synapses.connect"
    /\ net' = [net EXCEPT !.synapses = @ \o ConnectOneToOne(N_syn)]
    /\ pc' = "synapses.connect again"
    /\ UNCHANGED biforcation

\* Line 101: synapses.connect(j='i'), a second synapse for every neuron
SynapsesConnectAgain ==
    /\ pc = "synapses.connect again"
    /\ net' = [net EXCEPT !.synapses = @ \o ConnectOneToOne(N_syn)]
    /\ pc' = "ecs_syn_to_astro.connect"
    /\ UNCHANGED biforcation

\* Lines 154-156: ecs_syn_to_astro.connect(j='i if i<N_syn')
GlioSynToAstroConnect ==
    /\ pc = "ecs_syn_to_astro.connect"
    /\ net' = [net EXCEPT !.ecs_syn_to_astro =
                  ConnectIfBelow(Len(net.synapses), N_astrocyte, N_syn)]
    /\ pc' = "ecs_astro_to_syn.connect"
    /\ UNCHANGED biforcation

\* Lines 158-160: ecs_astro_to_syn.connect(j='i if i<N_syn')
GlioAstroToSynConnect ==
    /\ pc = "ecs_astro_to_syn.connect"
    /\ net' = [net EXCEPT !.ecs_astro_to_syn =
                  ConnectIfBelow(N_astrocyte, Len(net.synapses), N_syn)]
    /\ pc' = "run"
    /\ UNCHANGED biforcation

\* Line 168, run(duration), at time 0: every variable followed starts at
\* Brian2's initial 0, U_0 has not been computed yet
StartRun ==
    /\ pc = "run"
    /\ \E n \in FollowedNeurons :
          LET S == {s \in 0..(Len(net.synapses) - 1) : net.synapses[s + 1][1] = n}
              A == {a \in 0..(N_astrocyte - 1) :
                       \/ a = n
                       \/ \E s \in S : \/ <<s, a>> \in net.ecs_syn_to_astro
                                       \/ <<a, s>> \in net.ecs_astro_to_syn}
          IN  net' = [net EXCEPT
                  !.syn = [s \in S |-> [Y_S |-> "zero", G_A |-> "zero",
                                        Gamma_S |-> "zero", U_0 |-> "none"]],
                  !.astro = [a \in A |-> [Y_S |-> "zero", G_A |-> "zero"]]]
    /\ pc' = "running"
    /\ UNCHANGED biforcation

\* Line 168, one time step of the run: the (summed) variables, the state
\* updaters, the thresholds (the Poisson neuron may spike, any astrocyte may
\* cross C_Theta), on_pre of the synapses of a neuron that spiked (lines
\* 91-97), the reset of the astrocytes that fired (line 148).
Step ==
    /\ pc = "running"
    /\ \E spike \in BOOLEAN, fired \in SUBSET (DOMAIN net.astro),
          underflow \in SUBSET {"Y_S", "G_A", "Gamma_S"} :
          LET G_A_post(s) ==
                  Summed({a \in DOMAIN net.astro : <<a, s>> \in net.ecs_astro_to_syn},
                         net.astro, "G_A")
              Y_S_post(a) ==
                  Summed({s \in DOMAIN net.syn : <<s, a>> \in net.ecs_syn_to_astro},
                         net.syn, "Y_S")
              Gamma_S(s) ==
                  IF G_A_post(s) = "pos" THEN "pos"
                  ELSE Decay(net.syn[s].Gamma_S, "Gamma_S" \in underflow)
          IN  net' = [net EXCEPT
                  !.syn = [s \in DOMAIN net.syn |->
                      [G_A     |-> G_A_post(s),
                       Gamma_S |-> Gamma_S(s),
                       U_0     |-> IF spike THEN U_0(Gamma_S(s)) ELSE net.syn[s].U_0,
                       Y_S     |-> IF spike THEN "pos"
                                   ELSE Decay(net.syn[s].Y_S, "Y_S" \in underflow)]],
                  !.astro = [a \in DOMAIN net.astro |->
                      [Y_S |-> Y_S_post(a),
                       G_A |-> IF a \in fired THEN "pos"
                               ELSE Decay(net.astro[a].G_A, "G_A" \in underflow)]]]
    /\ UNCHANGED pc
    /\ UNCHANGED biforcation

GlioNext ==
    \/ SynapsesConnect
    \/ SynapsesConnectAgain
    \/ GlioSynToAstroConnect
    \/ GlioAstroToSynConnect
    \/ StartRun
    \/ Step

SpecGlio == GlioInit /\ [][GlioNext]_vars

\* C17: once the closed loop is built there are 2*N_syn synapses; synapse i
\* drives astrocyte a exactly when i < N_syn and a = i, and astrocyte a
\* drives synapse i exactly when i < N_syn and a = i; and at every time step
\* of the run a synapse with index >= N_syn has G_A = 0 and Gamma_S = 0, and
\* every U_0 computed for it is U_0__star.
C17_TwoPopulations ==
    pc \in {"run", "running"} =>
        /\ Len(net.synapses) = 2 * N_syn
        /\ net.ecs_syn_to_astro = {<<i, i>> : i \in 0..(N_syn - 1)}
        /\ net.ecs_astro_to_syn = {<<i, i>> : i \in 0..(N_syn - 1)}
        /\ \A s \in DOMAIN net.syn :
              s >= N_syn =>
                  /\ net.syn[s].G_A = "zero"
                  /\ net.syn[s].Gamma_S = "zero"
                  /\ net.syn[s].U_0 \in {"none", "U_0__star"}

\* C17 witness: during the run a synapse with index >= N_syn has spiked while
\* the astrocyte of its pre-synaptic neuron's index holds released
\* gliotransmitter and the neuron's other synapse is modulated by it.
C17_Witness ==
    /\ pc = "running"
    /\ \E s \in DOMAIN net.syn :
          /\ s >= N_syn
          /\ net.syn[s].U_0 = "U_0__star"
          /\ net.syn[s].Y_S = "pos"
          /\ (s - N_syn) \in DOMAIN net.syn
          /\ net.syn[s - N_syn].U_0 = "modulated"
          /\ net.syn[s - N_syn].G_A = "pos"
          /\ (s - N_syn) \in DOMAIN net.astro
          /\ net.astro[s - N_syn].G_A = "pos"
          /\ net.astro[s - N_syn].Y_S = "pos"

====
